---- MODULE Spec2Model ----
(***************************************************************************)
(* Type DA structures (dastructure.py): the sparse operation table of      *)
(* SimpleDAStructure, its validated insertion addDelta, the translation    *)
(* testDelta, and the constructions identityDA, AddChordToDA and           *)
(* DAStrFromChords.                                                        *)
(***************************************************************************)
EXTENDS Integers, Sequences, FiniteSets, TLC

\* ------------------------------------------------------------------ bounds
\* longest A-side input sequence passed to addDelta / AddChordToDA
MaxLen == 2
\* number of mutating calls (addDelta, AddChordToDA) in a run of the API
MaxCalls == 2
\* number of idempotent pairs handed to DAStrFromChords
MaxIdemPairs == 2
\* number of chord pairs handed to DAStrFromChords
MaxChordPairs == 2

\* ------------------------------------------------------- external primitives
\* the two-element field F2
RingN == 2
Ring == 0 .. (RingN - 1)

None == "None"
Idems == {"i0", "i1"}

\* Strands: a chord, with the idempotent it propagates each idempotent to
ChordR == [name |-> "r", prop |-> [i0 |-> "i1", i1 |-> None], multOne |-> TRUE, idem |-> FALSE]
ChordS == [name |-> "s", prop |-> [i0 |-> None, i1 |-> "i0"], multOne |-> FALSE, idem |-> FALSE]
ChordT == [name |-> "t", prop |-> [i0 |-> None, i1 |-> "i1"], multOne |-> TRUE, idem |-> FALSE]
ChordE == [name |-> "e", prop |-> [i0 |-> "i0", i1 |-> "i1"], multOne |-> TRUE, idem |-> TRUE]
Chords == {ChordS, ChordT}

propagateRight(c, idem) == c.prop[idem]
isMultOne(c) == c.multOne
idemCompatible(c, left, right) == propagateRight(c, left) = right

\* StrandDiagram(algebra, left_idem, strands): an algebra generator
StrandDiagram(alg, left, c) == [parent |-> alg, left_idem |-> left, strands |-> c]
getLeftIdem(d) == d.left_idem
getRightIdem(d) == propagateRight(d.strands, d.left_idem)
isIdempotent(d) == d.strands.idem

\* the generators of an algebra over a set of chords
AlgGens(alg, cs) == {StrandDiagram(alg, l, c) : <<l, c>> \in {p \in Idems \X cs : propagateRight(p[2], p[1]) /= None}}

\* all sequences over S of length at most n
SeqsUpTo(S, n) == UNION {[1 .. k -> S] : k \in 0 .. n}

\* Element: a linear combination, a map from tensor generators to nonzero coefficients
E0 == << >>
IsZero(e) == DOMAIN e = {}
Coeff(e, t) == IF t \in DOMAIN e THEN e[t] ELSE 0
elt(t, c) == [u \in {t} |-> c]
EltAdd(e1, e2) ==
    LET sum(t) == (Coeff(e1, t) + Coeff(e2, t)) % RingN
    IN  [t \in {u \in (DOMAIN e1) \cup (DOMAIN e2) : sum(u) /= 0} |-> sum(t)]

\* TensorGenerator((coeff_d, gen_to), AtensorM)
TensorGenerator(coeff_d, gen_to) == <<coeff_d, gen_to>>

\* --------------------------------------------------------------- generators
\* SimpleDAGenerator(parent, idem1, idem2, name); names are unique, so equality
\* by name and equality by identity agree
SimpleDAGenerator(parent, idem1, idem2, name) ==
    [cls |-> "SimpleDAGenerator", parent |-> parent, idem1 |-> idem1, idem2 |-> idem2, name |-> name]

isDAGenerator(g) == g.cls = "SimpleDAGenerator"

\* generator objects the API runs draw their arguments from; the last one
\* belongs to another structure
GenPool == { SimpleDAGenerator("self", "i0", "i0", 0),
             SimpleDAGenerator("self", "i1", "i0", 1),
             SimpleDAGenerator("self", "i1", "i1", 2),
             SimpleDAGenerator("other", "i1", "i1", 3) }

\* a Generator of this structure that is no DAGenerator
PlainGenerator == [cls |-> "Generator", parent |-> "self", idem1 |-> None, idem2 |-> None, name |-> 4]

VARIABLES
    generators,          \* SimpleDAStructure.generators
    da_action,           \* SimpleDAStructure.da_action
    mult_one,            \* algebra1.mult_one, algebra2.mult_one
    op,                  \* the last call made
    result,              \* how the last call ended: "ok" or the exception raised
    last,                \* of the last addDelta call: ring_coeff, the line of the
                         \* assertion that failed, the keys its sweep deleted
    calls,               \* number of addDelta calls so far
    da_single,           \* the table kept by the variant that prunes one key
    hist,                \* ring sum of ring_coeff per operation, over successful addDelta calls
    chord,               \* arguments of the last AddChordToDA call
    called,              \* the addDelta calls made by the last AddChordToDA
    ddstr,               \* the DD structure built by the last testDelta
    dagen_to_ddgen_map,  \* the correspondence built by the last testDelta
    pc,                  \* position in identityDA / DAStrFromChords
    idems,               \* pmc.getIdempotents() / idem_pairs
    alg_gen,             \* alg.getGenerators(), and those still to visit
    chord_pairs          \* how often each chord pair occurred in chord_pairs so far

structVars == <<generators, da_action, mult_one, da_single, hist>>
callVars == <<op, result, last, calls, chord, called>>
ddVars == <<ddstr, dagen_to_ddgen_map>>
drvVars == <<pc, idems, alg_gen, chord_pairs>>
vars == <<structVars, callVars, ddVars, drvVars>>

\* -------------------------------------------------------- SimpleDAStructure
\* addGenerator: the line of the first assertion that fails, 0 if none does
addGeneratorAsserts(g) ==
    IF g.parent /= "self" THEN 112
    ELSE IF ~isDAGenerator(g) THEN 113
    ELSE 0

\* addDelta's assertions without the last one (line 132)
addDeltaAsserts_noLast(gen_from, gen_to, coeff_d, coeffs_a) ==
    IF ~(gen_from.parent = "self" /\ gen_to.parent = "self") THEN 122
    ELSE IF getRightIdem(coeff_d) /= gen_to.idem1 THEN 123
    ELSE IF getLeftIdem(coeff_d) /= gen_from.idem1 THEN 124
    ELSE IF Len(coeffs_a) = 0
         THEN (IF gen_from.idem2 /= gen_to.idem2 THEN 126 ELSE 0)
    ELSE IF gen_from.idem2 /= getLeftIdem(coeffs_a[1]) THEN 128
    ELSE IF \E i \in 1 .. (Len(coeffs_a) - 1) :
                getRightIdem(coeffs_a[i]) /= getLeftIdem(coeffs_a[i + 1]) THEN 130
    ELSE 0

\* addDelta, lines 122-132: the line of the first assertion that fails, 0 if
\* none does
addDeltaAsserts(gen_from, gen_to, coeff_d, coeffs_a) ==
    IF ~(gen_from.parent = "self" /\ gen_to.parent = "self") THEN 122
    ELSE IF getRightIdem(coeff_d) /= gen_to.idem1 THEN 123
    ELSE IF getLeftIdem(coeff_d) /= gen_from.idem1 THEN 124
    ELSE IF Len(coeffs_a) = 0
         THEN (IF gen_from.idem2 /= gen_to.idem2 THEN 126 ELSE 0)
    ELSE IF gen_from.idem2 /= getLeftIdem(coeffs_a[1]) THEN 128
    ELSE IF \E i \in 1 .. (Len(coeffs_a) - 1) :
                getRightIdem(coeffs_a[i]) /= getLeftIdem(coeffs_a[i + 1]) THEN 130
    ELSE IF getRightIdem(coeffs_a[Len(coeffs_a)]) /= gen_to.idem2 THEN 132
    ELSE 0

\* accumulation that resets the entry to E0 on every call
Accumulate_overwrite(da, key, e) ==
    [k \in (DOMAIN da) \cup {key} |-> IF k = key THEN EltAdd(E0, e) ELSE da[k]]

\* lines 135-137: create the entry with E0 if absent, then add onto it
Accumulate(da, key, e) ==
    LET da1 == IF key \notin DOMAIN da
               THEN [k \in (DOMAIN da) \cup {key} |-> IF k = key THEN E0 ELSE da[k]]
               ELSE da
    IN  [da1 EXCEPT ![key] = EltAdd(@, e)]

\* no sweep at all
CleanZeroMaps_none(da) == da

\* lines 139-141: clean out the zero maps, over the whole table
CleanZeroMaps(da) == [k \in {s \in DOMAIN da : ~IsZero(da[s])} |-> da[k]]

\* addDelta that creates the E0 entry before it checks its arguments
addDelta_writeFirst(da, gen_from, gen_to, coeff_d, coeffs_a, ring_coeff) ==
    LET line == addDeltaAsserts(gen_from, gen_to, coeff_d, coeffs_a)
        key == <<gen_from, coeffs_a>>
        da0 == [k \in (DOMAIN da) \cup {key} |-> IF k \in DOMAIN da THEN da[k] ELSE E0]
        acc == Accumulate(da, key, elt(TensorGenerator(coeff_d, gen_to), ring_coeff))
    IN  IF line = 0
        THEN [result |-> "ok", line |-> 0, da_action |-> CleanZeroMaps(acc),
              swept |-> (DOMAIN acc) \ (DOMAIN CleanZeroMaps(acc))]
        ELSE [result |-> "AssertionError", line |-> line, da_action |-> da0, swept |-> {}]

\* addDelta as a whole: the table after the call, and how the call ended
addDelta(da, gen_from, gen_to, coeff_d, coeffs_a, ring_coeff) ==
    LET line == addDeltaAsserts(gen_from, gen_to, coeff_d, coeffs_a)
        acc == Accumulate(da, <<gen_from, coeffs_a>>,
                          elt(TensorGenerator(coeff_d, gen_to), ring_coeff))
    IN  IF line = 0
        THEN [result |-> "ok", line |-> 0, da_action |-> CleanZeroMaps(acc),
              swept |-> (DOMAIN acc) \ (DOMAIN CleanZeroMaps(acc))]
        ELSE [result |-> "AssertionError", line |-> line, da_action |-> da, swept |-> {}]

\* the variant of the design note: prune only the key just accumulated into
PruneKey(da, key) ==
    IF IsZero(da[key]) THEN [k \in (DOMAIN da) \ {key} |-> da[k]] ELSE da

addDeltaSingle(da, gen_from, gen_to, coeff_d, coeffs_a, ring_coeff) ==
    IF addDeltaAsserts(gen_from, gen_to, coeff_d, coeffs_a) = 0
    THEN PruneKey(Accumulate(da, <<gen_from, coeffs_a>>,
                             elt(TensorGenerator(coeff_d, gen_to), ring_coeff)),
                  <<gen_from, coeffs_a>>)
    ELSE da

\* history of the successful addDelta calls: the ring sum of their ring_coeff
\* per operation (gen_from, coeffs_a, coeff_d, gen_to); an operation whose sum
\* is zero is left out
HistSum(h, o) == IF o \in DOMAIN h THEN h[o] ELSE 0
HistAdd(h, o, ring_coeff) ==
    LET sum(k) == IF k = o THEN (HistSum(h, o) + ring_coeff) % RingN ELSE h[k]
    IN  [k \in {j \in (DOMAIN h) \cup {o} : sum(j) /= 0} |-> sum(k)]

NoLast == [ring_coeff |-> 0, line |-> 0, swept |-> {}]

\* one addDelta call on the structure st = [da, single, hist, result, last, called]
CallAddDelta(st, gen_from, gen_to, coeff_d, coeffs_a, ring_coeff) ==
    LET r == addDelta(st.da, gen_from, gen_to, coeff_d, coeffs_a, ring_coeff)
    IN  [da |-> r.da_action,
         single |-> addDeltaSingle(st.single, gen_from, gen_to, coeff_d, coeffs_a, ring_coeff),
         hist |-> IF r.result = "ok"
                  THEN HistAdd(st.hist, <<gen_from, coeffs_a, coeff_d, gen_to>>, ring_coeff)
                  ELSE st.hist,
         result |-> r.result,
         last |-> [ring_coeff |-> ring_coeff, line |-> r.line, swept |-> r.swept],
         called |-> st.called \cup {<<gen_from, gen_to, coeff_d, coeffs_a, ring_coeff>>}]

\* ------------------------------------------------------------- AddChordToDA
\* lines 217-226: walk coeffs_a from cur_idem, building the algebra inputs
RECURSIVE ChordWalk(_, _, _)
ChordWalk(coeffs_a, cur_idem, alg_a) ==
    IF coeffs_a = << >>
    THEN [idem_ok |-> TRUE, cur_idem |-> cur_idem, alg_a |-> alg_a]
    ELSE LET next_idem == propagateRight(Head(coeffs_a), cur_idem)
         IN  IF next_idem = None
             THEN [idem_ok |-> FALSE, cur_idem |-> cur_idem, alg_a |-> alg_a]
             ELSE ChordWalk(Tail(coeffs_a), next_idem,
                            Append(alg_a, StrandDiagram("alg2", cur_idem, Head(coeffs_a))))

\* the loop body without the comparison of cur_idem with y.idem2
ChordReaches_noFinal(mo, x, y, coeff_d, coeffs_a) ==
    /\ ~(mo.alg1 /\ ~isMultOne(coeff_d))
    /\ ~(mo.alg2 /\ ~(\A i \in 1 .. Len(coeffs_a) : isMultOne(coeffs_a[i])))
    /\ idemCompatible(coeff_d, x.idem1, y.idem1)
    /\ ChordWalk(coeffs_a, x.idem2, << >>).idem_ok

\* lines 207-227: does the loop body reach the addDelta call for the pair (x, y)
ChordReaches(mo, x, y, coeff_d, coeffs_a) ==
    /\ ~(mo.alg1 /\ ~isMultOne(coeff_d))
    /\ ~(mo.alg2 /\ ~(\A i \in 1 .. Len(coeffs_a) : isMultOne(coeffs_a[i])))
    /\ idemCompatible(coeff_d, x.idem1, y.idem1)
    /\ LET w == ChordWalk(coeffs_a, x.idem2, << >>)
       IN  w.idem_ok /\ w.cur_idem = y.idem2

\* the body of the double loop for one pair
ChordPair(st, mo, x, y, coeff_d, coeffs_a) ==
    IF ChordReaches(mo, x, y, coeff_d, coeffs_a)
    THEN CallAddDelta(st, x, y, StrandDiagram("alg1", x.idem1, coeff_d),
                      ChordWalk(coeffs_a, x.idem2, << >>).alg_a, 1)
    ELSE st

\* the double loop over gen_set; an exception ends it
RECURSIVE ChordLoop(_, _, _, _, _)
ChordLoop(st, mo, pairs, coeff_d, coeffs_a) ==
    IF pairs = {} \/ st.result /= "ok"
    THEN st
    ELSE LET p == CHOOSE q \in pairs : TRUE
         IN  ChordLoop(ChordPair(st, mo, p[1], p[2], coeff_d, coeffs_a), mo,
                       pairs \ {p}, coeff_d, coeffs_a)

\* the double loop over the pairs of two different generators only
AddChordToDA_distinct(st, mo, gen_set, coeff_d, coeffs_a) ==
    ChordLoop([st EXCEPT !.result = "ok", !.called = {}], mo,
              {p \in gen_set \X gen_set : p[1] /= p[2]}, coeff_d, coeffs_a)

\* lines 201-228
AddChordToDA(st, mo, gen_set, coeff_d, coeffs_a) ==
    ChordLoop([st EXCEPT !.result = "ok", !.called = {}], mo,
              gen_set \X gen_set, coeff_d, coeffs_a)

\* ---------------------------------------------------------------- testDelta
SimpleDDGenerator(parent, idem1, idem2, name) ==
    [parent |-> parent, idem1 |-> idem1, idem2 |-> idem2, name |-> name]

TensorStarGenerator(coeffs_a, cobar, idem) ==
    [data |-> coeffs_a, parent |-> cobar, idem |-> idem]

\* the terms of the table: (gen_from, coeffs_a, coeffs_d, gen_to, ring_coeff)
Terms(da) ==
    UNION {{<<k[1], k[2], t[1], t[2], da[k][t]>> : t \in DOMAIN da[k]} : k \in DOMAIN da}

\* lines 150-153
DDGenMap(gens) == [g \in gens |-> SimpleDDGenerator("ddstr", g.idem1, g.idem2, g.name)]

\* lines 156-163: the DD addDelta call made for one term
DDCall(m, t) ==
    [gen_from |-> m[t[1]], gen_to |-> m[t[4]], coeff_d |-> t[3],
     cobar_gen |-> TensorStarGenerator(t[2], "cobar2", IF Len(t[2]) = 0 THEN t[1].idem2 ELSE None),
     ring_coeff |-> t[5]]

\* the exceptions the second loop can raise
TestDeltaErrors(gens, da) ==
    {"KeyError" : t \in {u \in Terms(da) : u[1] \notin gens \/ u[4] \notin gens}}
    \cup {"AssertionError" : t \in {u \in Terms(da) : Len(u[2]) = 0 /\ u[1].idem2 /= u[4].idem2}}

\* the DD structure handed to ddstr.testDelta(): generators, and per addDelta
\* call the number of times it was made
DDStr(gens, da) ==
    LET m == DDGenMap(gens)
        cs == {DDCall(m, t) : t \in Terms(da)}
    IN  [generators |-> {m[g] : g \in gens},
         deltas |-> [c \in cs |-> Cardinality({t \in Terms(da) : DDCall(m, t) = c})]]

NoDD == [generators |-> {}, deltas |-> << >>]

\* ------------------------------------------------------------------ the API
ApiCoeffD == AlgGens("alg1", Chords)
ApiCoeffA == AlgGens("alg2", Chords)
ApiCoeffsA == SeqsUpTo(ApiCoeffA, MaxLen)

St == [da |-> da_action, single |-> da_single, hist |-> hist, result |-> "ok",
       last |-> NoLast, called |-> {}]

NoAlg == [all |-> {}, todo |-> {}]

NoCall == chord' = << >> /\ called' = {} /\ ddstr' = NoDD /\ dagen_to_ddgen_map' = << >>

Init ==
    /\ generators = {} /\ da_action = << >> /\ da_single = << >> /\ hist = << >>
    /\ mult_one = [alg1 |-> FALSE, alg2 |-> FALSE]
    /\ op = "init" /\ result = "ok" /\ last = NoLast /\ calls = 0
    /\ chord = << >> /\ called = {}
    /\ ddstr = NoDD /\ dagen_to_ddgen_map = << >>
    /\ pc = "api" /\ idems = << >> /\ alg_gen = NoAlg /\ chord_pairs = << >>

AddGeneratorStep(g) ==
    /\ op' = "addGenerator"
    /\ IF addGeneratorAsserts(g) = 0
       THEN result' = "ok" /\ generators' = generators \cup {g}
       ELSE result' = "AssertionError" /\ generators' = generators
    /\ last' = NoLast
    /\ UNCHANGED <<da_action, mult_one, da_single, hist, calls, drvVars>>
    /\ NoCall

DoAddGenerator == \E g \in GenPool \cup {PlainGenerator} : AddGeneratorStep(g)

AddDeltaStep(gen_from, gen_to, coeff_d, coeffs_a, ring_coeff) ==
    LET st == CallAddDelta(St, gen_from, gen_to, coeff_d, coeffs_a, ring_coeff)
    IN  /\ op' = "addDelta" /\ result' = st.result /\ last' = st.last
        /\ da_action' = st.da /\ da_single' = st.single /\ hist' = st.hist
        /\ calls' = calls + 1
        /\ UNCHANGED <<generators, mult_one, drvVars>>
        /\ NoCall

DoAddDelta ==
    /\ calls < MaxCalls
    /\ \E gen_from \in GenPool, gen_to \in GenPool, coeff_d \in ApiCoeffD,
          coeffs_a \in ApiCoeffsA, ring_coeff \in Ring :
        AddDeltaStep(gen_from, gen_to, coeff_d, coeffs_a, ring_coeff)

DoTestDelta ==
    /\ op' = "testDelta"
    /\ IF TestDeltaErrors(generators, da_action) = {}
       THEN /\ result' = "ok"
            /\ ddstr' = DDStr(generators, da_action)
            /\ dagen_to_ddgen_map' = DDGenMap(generators)
       ELSE /\ result' \in TestDeltaErrors(generators, da_action)
            /\ ddstr' = NoDD /\ dagen_to_ddgen_map' = << >>
    /\ last' = NoLast /\ chord' = << >> /\ called' = {}
    /\ UNCHANGED <<structVars, calls, drvVars>>

Next == DoAddGenerator \/ DoAddDelta \/ DoTestDelta

Spec == Init /\ [][Next]_vars

\* --------------------------------------------------------------- identityDA
\* a PMC: its idempotents, pairwise distinct, in the order of getIdempotents()
PmcIdems == {q \in SeqsUpTo(Idems, Cardinality(Idems)) : \A i, j \in 1 .. Len(q) : q[i] = q[j] => i = j}
IdChords == {ChordE, ChordR, ChordS, ChordT}
\* the generators an algebra over these idempotents may have
PmcAlgGens(q) ==
    {d \in AlgGens("alg", IdChords) :
        /\ \E i \in 1 .. Len(q) : q[i] = getLeftIdem(d)
        /\ \E i \in 1 .. Len(q) : q[i] = getRightIdem(d)}

InitIdentity ==
    /\ generators = {} /\ da_action = << >> /\ da_single = << >> /\ hist = << >>
    /\ mult_one = [alg1 |-> FALSE, alg2 |-> FALSE]
    /\ op = "init" /\ result = "ok" /\ last = NoLast /\ calls = 0
    /\ chord = << >> /\ called = {}
    /\ ddstr = NoDD /\ dagen_to_ddgen_map = << >>
    /\ pc = "id_gens" /\ chord_pairs = << >>
    /\ idems \in PmcIdems
    /\ \E all \in SUBSET PmcAlgGens(idems) : alg_gen = [all |-> all, todo |-> all]

\* lines 188-192: idem_to_gen_map after the first n idempotents
IdemToGenMap(q, n) ==
    [d \in {q[i] : i \in 1 .. n} |->
        LET i == CHOOSE j \in 1 .. n : q[j] = d /\ \A k \in 1 .. n : q[k] = d => k <= j
        IN  SimpleDAGenerator("self", d, d, i - 1)]

\* lines 189-192: one round of the first loop
IdGenerator ==
    /\ pc = "id_gens" /\ Cardinality(generators) < Len(idems)
    /\ LET i == Cardinality(generators)
           cur_gen == SimpleDAGenerator("self", idems[i + 1], idems[i + 1], i)
       IN  /\ addGeneratorAsserts(cur_gen) = 0
           /\ generators' = generators \cup {cur_gen}
    /\ op' = "addGenerator" /\ result' = "ok" /\ last' = NoLast
    /\ UNCHANGED <<da_action, mult_one, da_single, hist, calls, drvVars>>
    /\ NoCall

IdStartDeltas ==
    /\ pc = "id_gens" /\ Cardinality(generators) = Len(idems)
    /\ pc' = "id_deltas"
    /\ UNCHANGED <<structVars, callVars, ddVars, idems, alg_gen, chord_pairs>>

\* the body of the second loop without the test of line 195
IdentityDelta_noFilter(st, m, gen) ==
    CallAddDelta(st, m[getLeftIdem(gen)], m[getRightIdem(gen)], gen, <<gen>>, 1)

\* lines 195-198: the body of the second loop
IdentityDelta(st, m, gen) ==
    IF ~isIdempotent(gen)
    THEN CallAddDelta(st, m[getLeftIdem(gen)], m[getRightIdem(gen)], gen, <<gen>>, 1)
    ELSE st

\* lines 194-198: one round of the second loop
IdDelta ==
    /\ pc = "id_deltas"
    /\ \E gen \in alg_gen.todo :
        LET st == IdentityDelta(St, IdemToGenMap(idems, Len(idems)), gen)
        IN  /\ op' = "identityDA" /\ result' = st.result /\ last' = st.last
            /\ da_action' = st.da /\ da_single' = st.single /\ hist' = st.hist
            /\ alg_gen' = [alg_gen EXCEPT !.todo = @ \ {gen}]
            /\ pc' = IF st.result = "ok" THEN pc ELSE "raised"
    /\ UNCHANGED <<generators, mult_one, calls, idems, chord_pairs>>
    /\ NoCall

IdReturn ==
    /\ pc = "id_deltas" /\ alg_gen.todo = {}
    /\ pc' = "done"
    /\ UNCHANGED <<structVars, callVars, ddVars, idems, alg_gen, chord_pairs>>

NextIdentity == IdGenerator \/ IdStartDeltas \/ IdDelta \/ IdReturn

SpecIdentity == InitIdentity /\ [][NextIdentity]_vars

\* ---------------------------------------------------------- DAStrFromChords
IdemPairs == Idems \X Idems
ChordPairs == Chords \X SeqsUpTo(Chords, MaxLen)

\* the number of chord pairs processed so far
RECURSIVE BagSize(_)
BagSize(b) ==
    IF DOMAIN b = {} THEN 0
    ELSE LET e == CHOOSE x \in DOMAIN b : TRUE
         IN  b[e] + BagSize([x \in (DOMAIN b) \ {e} |-> b[x]])

BagAdd(b, e) ==
    [x \in (DOMAIN b) \cup {e} |-> IF x = e THEN (IF e \in DOMAIN b THEN b[e] ELSE 0) + 1 ELSE b[x]]

InitChords ==
    /\ generators = {} /\ da_action = << >> /\ da_single = << >> /\ hist = << >>
    /\ mult_one \in [alg1 : BOOLEAN, alg2 : BOOLEAN]
    /\ op = "init" /\ result = "ok" /\ last = NoLast /\ calls = 0
    /\ chord = << >> /\ called = {}
    /\ ddstr = NoDD /\ dagen_to_ddgen_map = << >>
    /\ pc = "ch_gens" /\ idems = << >> /\ alg_gen = NoAlg /\ chord_pairs = << >>

\* lines 242-244: one round of the first loop, for the next entry of idem_pairs
ChGenerator ==
    /\ pc = "ch_gens" /\ Len(idems) < MaxIdemPairs
    /\ \E p \in IdemPairs :
        LET g == SimpleDAGenerator("self", p[1], p[2], Len(idems))
        IN  /\ addGeneratorAsserts(g) = 0
            /\ generators' = generators \cup {g}
            /\ idems' = Append(idems, p)
    /\ op' = "addGenerator" /\ result' = "ok" /\ last' = NoLast
    /\ UNCHANGED <<da_action, mult_one, da_single, hist, calls, pc, alg_gen, chord_pairs>>
    /\ NoCall

ChStartChords ==
    /\ pc = "ch_gens"
    /\ pc' = "ch_chords"
    /\ UNCHANGED <<structVars, callVars, ddVars, idems, alg_gen, chord_pairs>>

\* lines 245-246: one round of the second loop, for the next entry of chord_pairs
ChChord ==
    /\ pc = "ch_chords" /\ BagSize(chord_pairs) < MaxChordPairs
    /\ \E e \in ChordPairs :
        LET st == AddChordToDA(St, mult_one, generators, e[1], e[2])
        IN  /\ op' = "AddChordToDA" /\ result' = st.result /\ last' = NoLast
            /\ da_action' = st.da /\ da_single' = st.single /\ hist' = st.hist
            /\ chord' = e /\ called' = st.called
            /\ chord_pairs' = BagAdd(chord_pairs, e)
            /\ pc' = IF st.result = "ok" THEN pc ELSE "raised"
    /\ ddstr' = NoDD /\ dagen_to_ddgen_map' = << >>
    /\ UNCHANGED <<generators, mult_one, calls, idems, alg_gen>>

ChReturn ==
    /\ pc = "ch_chords"
    /\ pc' = "done"
    /\ UNCHANGED <<structVars, callVars, ddVars, idems, alg_gen, chord_pairs>>

NextChords == ChGenerator \/ ChStartChords \/ ChChord \/ ChReturn

SpecChords == InitChords /\ [][NextChords]_vars

\* ------------------------------------------------------------------ claims
\* the operations of a table: (gen_from, coeffs_a, coeff_d, gen_to)
Ops(da) == {<<t[1], t[2], t[3], t[4]>> : t \in Terms(da)}
KeyOf(o) == <<o[1], o[2]>>
TableCoeff(da, o) ==
    IF KeyOf(o) \in DOMAIN da THEN Coeff(da[KeyOf(o)], <<o[3], o[4]>>) ELSE 0

\* C1: no key of da_action maps to an all-zero linear combination: every key
\* present holds at least one term with a nonzero ring coefficient.
C1_NoZeroEntry ==
    \A k \in DOMAIN da_action : \E t \in DOMAIN da_action[k] : da_action[k][t] /= 0

\* an addDelta call with coefficient 1 cancelled an entry, and the sweep deleted its key
C1_Witness ==
    op = "addDelta" /\ result = "ok" /\ last.ring_coeff = 1 /\ last.swept /= {}

\* C2: addDelta accumulates: the coefficient stored for an operation is the
\* ring sum of the ring_coeff of all successful calls with that operation, and
\* a key is absent exactly when all of its terms sum to zero.
C2_Accumulates ==
    /\ \A o \in Ops(da_action) \cup DOMAIN hist :
           TableCoeff(da_action, o) = HistSum(hist, o)
    /\ \A k \in (DOMAIN da_action) \cup {KeyOf(o) : o \in DOMAIN hist} :
           (k \notin DOMAIN da_action)
               <=> (\A o \in DOMAIN hist : KeyOf(o) = k => hist[o] = 0)

\* one key holds two terms, accumulated by two calls
C2_Witness ==
    /\ op = "addDelta" /\ result = "ok"
    /\ \E k \in DOMAIN da_action : Cardinality(DOMAIN da_action[k]) = 2

\* the equalities of the idempotent chain invariant
ChainOk(gen_from, coeffs_a, coeff_d, gen_to) ==
    /\ getLeftIdem(coeff_d) = gen_from.idem1
    /\ getRightIdem(coeff_d) = gen_to.idem1
    /\ \/ coeffs_a = << >> /\ gen_from.idem2 = gen_to.idem2
       \/ /\ coeffs_a /= << >>
          /\ gen_from.idem2 = getLeftIdem(coeffs_a[1])
          /\ \A i \in 1 .. (Len(coeffs_a) - 1) :
                 getRightIdem(coeffs_a[i]) = getLeftIdem(coeffs_a[i + 1])
          /\ getRightIdem(coeffs_a[Len(coeffs_a)]) = gen_to.idem2

\* C3: every entry of da_action satisfies the idempotent chain equalities, and
\* an addDelta call whose arguments violate one of them does not succeed.
C3_IdempotentChain ==
    /\ [](\A t \in Terms(da_action) : ChainOk(t[1], t[2], t[3], t[4]))
    /\ [][(op' = "addDelta" /\ result' = "ok") =>
            \A gen_from \in GenPool, gen_to \in GenPool, coeff_d \in ApiCoeffD,
               coeffs_a \in ApiCoeffsA, ring_coeff \in Ring :
                AddDeltaStep(gen_from, gen_to, coeff_d, coeffs_a, ring_coeff)
                    => ChainOk(gen_from, coeffs_a, coeff_d, gen_to)]_vars

\* a call was rejected for a mismatch inside the A-side chain
C3_Witness ==
    op = "addDelta" /\ result = "AssertionError" /\ last.line = 130

\* C4: every generator in a key or a value of da_action is a member of
\* generators and has this structure as parent.
C4_Registered ==
    \A t \in Terms(da_action) :
        /\ t[1] \in generators /\ t[1].parent = "self"
        /\ t[4] \in generators /\ t[4].parent = "self"

\* C8: testDelta builds a bijection between the DA generators and the DD
\* generators that preserves idem1, idem2 and name, and every term of da_action
\* yields exactly one DD addDelta between the mapped generators with the same
\* D-side coefficient and ring coefficient.
C8_Faithful ==
    op = "testDelta" =>
        /\ result = "ok"
        /\ DOMAIN dagen_to_ddgen_map = generators
        /\ {dagen_to_ddgen_map[g] : g \in generators} = ddstr.generators
        /\ \A g, h \in generators :
               dagen_to_ddgen_map[g] = dagen_to_ddgen_map[h] => g = h
        /\ \A g \in generators :
               /\ dagen_to_ddgen_map[g].idem1 = g.idem1
               /\ dagen_to_ddgen_map[g].idem2 = g.idem2
               /\ dagen_to_ddgen_map[g].name = g.name
        /\ \A t \in Terms(da_action) :
               LET cs == {c \in DOMAIN ddstr.deltas :
                             /\ c.gen_from = dagen_to_ddgen_map[t[1]]
                             /\ c.gen_to = dagen_to_ddgen_map[t[4]]
                             /\ c.cobar_gen.data = t[2]
                             /\ c.coeff_d = t[3]
                             /\ c.ring_coeff = t[5]}
               IN  Cardinality(cs) = 1 /\ \A c \in cs : ddstr.deltas[c] = 1

\* C9: the variant of addDelta that prunes only the key it accumulated into
\* keeps, after every call, the table of the variant that sweeps the whole table.
C9_SingleKeyPrune == da_single = da_action

\* a call whose sweep deleted a key while other entries stayed
C9_Witness ==
    op = "addDelta" /\ last.swept /= {} /\ da_action /= << >>

\* C10: a rejected addDelta or addGenerator leaves generators and da_action as
\* they were, and addDelta never changes generators.
C10_RejectedUnchanged ==
    [][/\ (op' \in {"addDelta", "addGenerator"} /\ result' /= "ok")
            => (generators' = generators /\ da_action' = da_action)
       /\ op' = "addDelta" => generators' = generators]_vars

\* a call rejected by the A-side check, on a table that holds entries
C10_Witness ==
    op = "addDelta" /\ result = "AssertionError" /\ last.line = 126 /\ da_action /= << >>

\* C5: identityDA returns exactly one generator per idempotent, the i-th with
\* idem1 = idem2 = the i-th idempotent, and for every non-idempotent algebra
\* generator g exactly one operation with D-side coefficient g and A-side input
\* (g,), from the generator of g's left idempotent to that of its right one with
\* coefficient 1; the table holds no other operation.
C5_IdentityWellFormed ==
    pc = "done" =>
        /\ Cardinality(generators) = Len(idems)
        /\ \A i \in 1 .. Len(idems) :
               \E g \in generators :
                   g.name = i - 1 /\ g.idem1 = idems[i] /\ g.idem2 = idems[i]
        /\ \A g \in alg_gen.all :
               ~isIdempotent(g) =>
                   LET os == {o \in Ops(da_action) : o[3] = g /\ o[2] = <<g>>}
                   IN  /\ Cardinality(os) = 1
                       /\ \A o \in os :
                              /\ o[1] \in generators /\ o[1].idem1 = getLeftIdem(g)
                              /\ o[4] \in generators /\ o[4].idem1 = getRightIdem(g)
                              /\ TableCoeff(da_action, o) = 1
        /\ \A o \in Ops(da_action) :
               o[3] \in alg_gen.all /\ ~isIdempotent(o[3]) /\ o[2] = <<o[3]>>

\* identityDA returned for two idempotents and an algebra with idempotent and
\* non-idempotent generators
C5_Witness ==
    /\ pc = "done" /\ Len(idems) = 2
    /\ \E g \in alg_gen.all : isIdempotent(g)
    /\ Cardinality({g \in alg_gen.all : ~isIdempotent(g)}) >= 2

\* the idempotent x_idem2 propagated through coeffs_a; None if a step fails
RECURSIVE Propagated(_, _)
Propagated(coeffs_a, idem) ==
    IF idem = None THEN None
    ELSE IF coeffs_a = << >> THEN idem
    ELSE Propagated(Tail(coeffs_a), propagateRight(Head(coeffs_a), idem))

\* the conditions under which a chord pair e is admitted for the pair (x, y)
Admits(x, y, e) ==
    /\ mult_one.alg1 => isMultOne(e[1])
    /\ mult_one.alg2 => \A i \in 1 .. Len(e[2]) : isMultOne(e[2][i])
    /\ propagateRight(e[1], x.idem1) = y.idem1
    /\ Propagated(e[2], x.idem2) = y.idem2

\* C6: AddChordToDA calls addDelta(x, y, ., ., 1) for exactly the ordered pairs
\* of generators (x == y included) that the multiplicity-one restrictions, the
\* D-side compatibility and the A-side propagation admit; it does not raise,
\* and a chord no pair admits leaves da_action unchanged.
C6_AddChord ==
    /\ [](op = "AddChordToDA" =>
            /\ result = "ok"
            /\ {<<c[1], c[2], c[5]>> : c \in called}
                   = {<<p[1], p[2], 1>> :
                         p \in {q \in generators \X generators : Admits(q[1], q[2], chord)}})
    /\ [][(/\ op' = "AddChordToDA"
           /\ \A x \in generators', y \in generators' : ~Admits(x, y, chord'))
              => da_action' = da_action]_vars

\* a chord with two A-side inputs was admitted for a pair x == y and skipped
\* for another pair
C6_Witness ==
    /\ op = "AddChordToDA" /\ Len(chord[2]) = 2
    /\ \E c \in called : c[1] = c[2]
    /\ Cardinality(called) < Cardinality(generators \X generators)

\* the A-side inputs of the operation a chord pair gives from x
RECURSIVE Inputs(_, _)
Inputs(coeffs_a, idem) ==
    IF coeffs_a = << >> THEN << >>
    ELSE <<StrandDiagram("alg2", idem, Head(coeffs_a))>>
             \o Inputs(Tail(coeffs_a), propagateRight(Head(coeffs_a), idem))

\* the operation x -> y of a chord pair e
ChordOp(x, y, e) == <<x, Inputs(e[2], x.idem2), StrandDiagram("alg1", x.idem1, e[1]), y>>

\* one generator per entry of idem_pairs
OneGeneratorPerPair ==
    /\ Cardinality(generators) = Len(idems)
    /\ \A i \in 1 .. Len(idems) :
           \E g \in generators :
               g.name = i - 1 /\ g.idem1 = idems[i][1] /\ g.idem2 = idems[i][2]

\* two idempotent pairs and a single chord pair admitted only from the first
\* generator to the second
SingleChordScenario ==
    /\ Len(idems) = 2
    /\ \E e \in DOMAIN chord_pairs :
           /\ DOMAIN chord_pairs = {e} /\ chord_pairs[e] = 1
           /\ \A x \in generators, y \in generators :
                  Admits(x, y, e) <=> (x.name = 0 /\ y.name = 1)

C7_WitnessSingle == pc = "done" /\ SingleChordScenario

====
